---------------------------- MODULE Spec2Model ----------------------------
(***************************************************************************)
(* Model of the ministark arithmetic core and proving pipeline:            *)
(*   fast-poly/src/fields/fp_u256.rs   U256 and the Montgomery field       *)
(*   mini-stark/src/prover.rs          Prover::generate_proof              *)
(*                                                                         *)
(* Widths.  TLC integers are 32 bit, so every machine width of the source  *)
(* is scaled by the same factor and all arithmetic is reduced modulo the   *)
(* scaled width exactly where the source wraps:                            *)
(*     u64 / usize half limb  64 bits -> HalfBits  (3)                     *)
(*     u128 limb             128 bits -> LimbBits  (6)                     *)
(*     U256                  256 bits -> U256Bits  (12)                    *)
(*     usize (shift amount)   64 bits -> UsizeBits (4): wide enough to     *)
(*                            hold U256Bits, narrower than a limb          *)
(* The modulus N = 2^256 - 2^32 - 977 becomes the prime 2^12 - 3 = 4093    *)
(* (high limb all ones, as in the source); R_SQUARED and N_PRIME are       *)
(* derived from it by the formulas of the source's doc comments.           *)
(***************************************************************************)
EXTENDS Integers, Sequences, FiniteSets, TLC

HalfBits == 3
UsizeBits == 4
LimbBits == 2 * HalfBits
U256Bits == 2 * LimbBits
HalfMod == 2 ^ HalfBits
LimbMod == 2 ^ LimbBits
UsizeMod == 2 ^ UsizeBits
WideMod == LimbMod * LimbMod

(***************************************************************************)
(* Machine primitives: casts and bitwise operators on limbs.               *)
(***************************************************************************)
\* `v as u64 as u128`
u64(v) == v % HalfMod

\* wrap of a u128 result
u128(v) == v % LimbMod

RECURSIVE BitAnd(_, _)
\* `a & b` on limbs
BitAnd(a, b) ==
    IF a = 0 \/ b = 0 THEN 0
    ELSE (a % 2) * (b % 2) + 2 * BitAnd(a \div 2, b \div 2)

RECURSIVE BitOr(_, _)
\* `a | b` on limbs
BitOr(a, b) ==
    IF a = 0 THEN b
    ELSE IF b = 0 THEN a
    ELSE (IF a % 2 = 1 \/ b % 2 = 1 THEN 1 ELSE 0) + 2 * BitOr(a \div 2, b \div 2)

\* `a << s` on a limb, s < LimbBits
Shl128(a, s) == (a * (2 ^ s)) % LimbMod

\* `a >> s` on a limb, s < LimbBits
Shr128(a, s) == a \div (2 ^ s)

(***************************************************************************)
(* struct U256 { high: u128, low: u128 }                                   *)
(***************************************************************************)
Limb == 0 .. (LimbMod - 1)

U256 == [high : Limb, low : Limb]

\* the integer a U256 denotes (used to state properties, not by the code)
ToInt(a) == a.high * LimbMod + a.low

\* the U256 denoting an integer in [0, 2^U256Bits)
FromInt(v) == [high |-> (v \div LimbMod) % LimbMod, low |-> v % LimbMod]

U256_ZERO == [high |-> 0, low |-> 0]

U256_ONE == [high |-> 0, low |-> 1]

U256_MAX == [high |-> LimbMod - 1, low |-> LimbMod - 1]

\* outcome of a call: a returned value or a panic (todo!(), panic!(), assert)
Returned(v) == [kind |-> "return", value |-> v]

Panicked == [kind |-> "panic", value |-> U256_ZERO]

\* Option<U256>
Some(v) == [kind |-> "Some", value |-> v]

None == [kind |-> "None", value |-> U256_ZERO]

is_zero(self) == self.high = 0 /\ self.low = 0

is_one(self) == self.high = 0 /\ self.low = 0

U256_eq(self, rhs) == self.high = rhs.high \/ self.low = rhs.low

gt(self, rhs) ==
    self.high > rhs.high \/ ((self.high = rhs.high) /\ self.low > rhs.low)

lt(self, rhs) ==
    self.high < rhs.high \/ ((self.high = rhs.high) /\ self.low < rhs.low)

\* U256_add without the carry out of the low limb
U256_add_CarryDropped(self, rhs) ==
    [high |-> u128(self.high + rhs.high), low |-> u128(self.low + rhs.low)]

U256_add(self, rhs) ==
    LET low == u128(self.low + rhs.low)
        overflow == IF self.low + rhs.low >= LimbMod THEN 1 ELSE 0
        high == u128(self.high + rhs.high + overflow)
    IN [high |-> high, low |-> low]

overflowing_add(self, rhs) ==
    LET low == u128(self.low + rhs.low)
        overflow_low == IF self.low + rhs.low >= LimbMod THEN 1 ELSE 0
        high == u128(self.high + rhs.high + overflow_low)
        overflow_high == self.high + rhs.high + overflow_low >= LimbMod
    IN [value |-> [high |-> high, low |-> low], overflow |-> overflow_high]

U256_sub(self, rhs) ==
    LET low == u128(LimbMod + self.low - rhs.low)
        overflow == IF self.low < rhs.low THEN 1 ELSE 0
        high == u128(2 * LimbMod + self.high - rhs.high - overflow)
    IN [high |-> high, low |-> low]

as_usize(self) == self.low % UsizeMod

shl(self, rhs) ==
    LET shift == as_usize(rhs)
    IN IF shift = 0 THEN self
       ELSE IF shift >= U256Bits THEN U256_ZERO
       ELSE IF shift >= LimbBits
            THEN [high |-> Shl128(self.low, shift - LimbBits), low |-> 0]
       ELSE [high |-> BitOr(Shl128(self.high, shift),
                            Shr128(self.low, LimbBits - shift)),
             low |-> Shl128(self.low, shift)]

shr(self, rhs) ==
    LET shift == as_usize(rhs)
    IN IF shift = 0 THEN self
       ELSE IF shift >= U256Bits THEN U256_ZERO
       ELSE IF shift >= LimbBits
            THEN [high |-> 0, low |-> Shr128(self.high, shift - LimbBits)]
       ELSE [high |-> Shr128(self.high, shift),
             low |-> BitOr(Shr128(self.low, shift),
                           Shl128(self.high, LimbBits - shift))]

bit_and(self, rhs) ==
    [high |-> BitAnd(self.high, rhs.high), low |-> BitAnd(self.low, rhs.low)]

\* U256_mul without the carry from the third digit into the second
U256_mul_CarryDropped(self, rhs) ==
    LET top == <<Shr128(self.high, HalfBits), u64(self.high),
                 Shr128(self.low, HalfBits), u64(self.low)>>
        bottom == <<Shr128(rhs.high, HalfBits), u64(rhs.high),
                    Shr128(rhs.low, HalfBits), u64(rhs.low)>>
        \* products[i][j], 0-indexed as in the source: top[3 - i] * bottom[j]
        products(i, j) == u128(top[(3 - i) + 1] * bottom[j + 1])
        \* first row
        fourth_a == u64(products(0, 3))
        third_a == u128(u64(products(0, 2)) + Shr128(products(0, 3), HalfBits))
        second_a == u128(u64(products(0, 1)) + Shr128(products(0, 2), HalfBits))
        first_a == u128(u64(products(0, 0)) + Shr128(products(0, 1), HalfBits))
        \* second row
        third_b == u128(third_a + u64(products(1, 3)))
        second_b == u128(second_a + u128(u64(products(1, 2))
                                         + Shr128(products(1, 3), HalfBits)))
        first_b == u128(first_a + u128(u64(products(1, 1))
                                       + Shr128(products(1, 2), HalfBits)))
        \* third row
        second_c == u128(second_b + u64(products(2, 3)))
        first_c == u128(first_b + u128(u64(products(2, 2))
                                       + Shr128(products(2, 3), HalfBits)))
        \* fourth row
        first_d == u128(first_c + u64(products(3, 3)))
        \* move carry to next digit
        third_e == u128(third_b + Shr128(fourth_a, HalfBits))
        second_e == second_c
        first_e == u128(first_d + Shr128(second_e, HalfBits))
        \* remove carry from current digit
        fourth64 == u64(fourth_a)
        third64 == u64(third_e)
        second64 == u64(second_e)
        first64 == u64(first_e)
    IN [high |-> BitOr(Shl128(first64, HalfBits), second64),
        low |-> BitOr(Shl128(third64, HalfBits), fourth64)]

U256_mul(self, rhs) ==
    LET top == <<Shr128(self.high, HalfBits), u64(self.high),
                 Shr128(self.low, HalfBits), u64(self.low)>>
        bottom == <<Shr128(rhs.high, HalfBits), u64(rhs.high),
                    Shr128(rhs.low, HalfBits), u64(rhs.low)>>
        \* products[i][j], 0-indexed as in the source: top[3 - i] * bottom[j]
        products(i, j) == u128(top[(3 - i) + 1] * bottom[j + 1])
        \* first row
        fourth_a == u64(products(0, 3))
        third_a == u128(u64(products(0, 2)) + Shr128(products(0, 3), HalfBits))
        second_a == u128(u64(products(0, 1)) + Shr128(products(0, 2), HalfBits))
        first_a == u128(u64(products(0, 0)) + Shr128(products(0, 1), HalfBits))
        \* second row
        third_b == u128(third_a + u64(products(1, 3)))
        second_b == u128(second_a + u128(u64(products(1, 2))
                                         + Shr128(products(1, 3), HalfBits)))
        first_b == u128(first_a + u128(u64(products(1, 1))
                                       + Shr128(products(1, 2), HalfBits)))
        \* third row
        second_c == u128(second_b + u64(products(2, 3)))
        first_c == u128(first_b + u128(u64(products(2, 2))
                                       + Shr128(products(2, 3), HalfBits)))
        \* fourth row
        first_d == u128(first_c + u64(products(3, 3)))
        \* move carry to next digit
        third_e == u128(third_b + Shr128(fourth_a, HalfBits))
        second_e == u128(second_c + Shr128(third_e, HalfBits))
        first_e == u128(first_d + Shr128(second_e, HalfBits))
        \* remove carry from current digit
        fourth64 == u64(fourth_a)
        third64 == u64(third_e)
        second64 == u64(second_e)
        first64 == u64(first_e)
    IN [high |-> BitOr(Shl128(first64, HalfBits), second64),
        low |-> BitOr(Shl128(third64, HalfBits), fourth64)]

\* div_rem without the test for a zero divisor
div_rem_ZeroDivisorUnchecked(self, rhs) ==
    IF is_one(rhs)
    THEN [kind |-> "return", quotient |-> self, remainder |-> U256_ZERO]
    ELSE IF is_zero(self) \/ lt(self, rhs)
    THEN [kind |-> "return", quotient |-> U256_ZERO, remainder |-> rhs]
    ELSE IF U256_eq(self, rhs)
    THEN [kind |-> "return", quotient |-> U256_ONE, remainder |-> U256_ZERO]
    ELSE IF self.high = 0 /\ rhs.high = 0
    THEN [kind |-> "return",
          quotient |-> [high |-> 0, low |-> self.low \div rhs.low],
          remainder |-> [high |-> 0, low |-> self.low % rhs.low]]
    ELSE [kind |-> "panic", quotient |-> U256_ZERO, remainder |-> U256_ZERO]

\* (quotient, remainder) or a panic
div_rem(self, rhs) ==
    IF is_zero(rhs)
    THEN [kind |-> "panic", quotient |-> U256_ZERO, remainder |-> U256_ZERO]
    ELSE IF is_one(rhs)
    THEN [kind |-> "return", quotient |-> self, remainder |-> U256_ZERO]
    ELSE IF is_zero(self) \/ lt(self, rhs)
    THEN [kind |-> "return", quotient |-> U256_ZERO, remainder |-> rhs]
    ELSE IF U256_eq(self, rhs)
    THEN [kind |-> "return", quotient |-> U256_ONE, remainder |-> U256_ZERO]
    ELSE IF self.high = 0 /\ rhs.high = 0
    THEN [kind |-> "return",
          quotient |-> [high |-> 0, low |-> self.low \div rhs.low],
          remainder |-> [high |-> 0, low |-> self.low % rhs.low]]
    ELSE [kind |-> "panic", quotient |-> U256_ZERO, remainder |-> U256_ZERO]

\* impl BitAnd for U256: `self & rhs` is todo!()
bitand(self, rhs) == Panicked

\* impl Div for U256: `self / rhs`
U256_div(self, rhs) ==
    LET qr == div_rem(self, rhs)
    IN IF qr.kind = "panic" THEN Panicked ELSE Returned(qr.quotient)

\* impl Rem for U256: `self % rhs`
U256_rem(self, rhs) ==
    LET qr == div_rem(self, rhs)
    IN IF qr.kind = "panic" THEN Panicked ELSE Returned(qr.remainder)

\* impl DivAssign for U256: `*self /= rhs`, the new value of self
U256_div_assign(self, rhs) ==
    LET qr == div_rem(self, rhs)
    IN IF qr.kind = "panic" THEN Panicked ELSE Returned(qr.quotient)

\* impl RemAssign for U256: `*self %= rhs`, the new value of self
U256_rem_assign(self, rhs) ==
    LET qr == div_rem(self, rhs)
    IN IF qr.kind = "panic" THEN Panicked ELSE Returned(qr.remainder)

\* impl Ord for U256
cmp(self, other) ==
    IF self.high < other.high THEN "Less"
    ELSE IF self.high > other.high THEN "Greater"
    ELSE IF self.low < other.low THEN "Less"
    ELSE IF self.low > other.low THEN "Greater"
    ELSE "Equal"

\* impl From<u64> for U256
from_u64(val) == [high |-> 0, low |-> val]

(***************************************************************************)
(* Montgomery field: BaseFelt(pub U256), constants and free functions.     *)
(***************************************************************************)
\* Field modulus, 2^U256Bits - 3
N == [high |-> LimbMod - 1, low |-> LimbMod - 3]

\* R^2 mod N with R = 2^U256Bits
R_SQUARED == FromInt((WideMod * WideMod) % ToInt(N))

\* N' in [0, R - 1] with N * N' = -1 mod R
N_PRIME ==
    FromInt(CHOOSE np \in 0 .. (WideMod - 1) : (ToInt(N) * np) % WideMod = WideMod - 1)

\* `U256 { high: 0, low: a.low }`
low_limb(a) == [high |-> 0, low |-> a.low]

\* `U256 { high: 0, low: a.high }`
high_limb(a) == [high |-> 0, low |-> a.high]

\* mul, lines 1007-1023: T = lhs * rhs as (t_low, t_high), from the four
\* partial products of the limbs
mul_t_sum(partial_t_high, partial_t_mid_a, partial_t_mid_b, partial_t_low) ==
    LET tmp == U256_add(U256_add(low_limb(partial_t_mid_a),
                                 low_limb(partial_t_mid_b)),
                        high_limb(partial_t_low))
        carry == high_limb(tmp)
    IN [t_low |-> [high |-> tmp.low, low |-> partial_t_low.low],
        t_high |-> U256_add(U256_add(U256_add(partial_t_high,
                                              high_limb(partial_t_mid_a)),
                                     high_limb(partial_t_mid_b)),
                            carry)]

\* mul, lines 968-1005: the partial products of lhs and rhs
mul_t(lhs, rhs) ==
    mul_t_sum(U256_mul(high_limb(lhs), high_limb(rhs)),
              U256_mul(high_limb(lhs), low_limb(rhs)),
              U256_mul(high_limb(rhs), low_limb(lhs)),
              U256_mul(low_limb(lhs), low_limb(rhs)))

\* mul, lines 1070-1085: m * N as (mn_low, mn_high)
mul_mn_sum(partial_mn_high, partial_mn_mid_a, partial_mn_mid_b, partial_mn_low) ==
    LET tmp == U256_add(U256_add(low_limb(partial_mn_mid_a),
                                 low_limb(partial_mn_mid_b)),
                        high_limb(partial_mn_low))
        carry == high_limb(tmp)
    IN [mn_low |-> [high |-> tmp.low, low |-> partial_mn_low.low],
        mn_high |-> U256_add(U256_add(U256_add(partial_mn_high,
                                               high_limb(partial_mn_mid_a)),
                                      high_limb(partial_mn_mid_b)),
                             carry)]

\* mul, lines 1031-1068: the partial products of m and N
mul_mn(m) ==
    mul_mn_sum(U256_mul(high_limb(m), high_limb(N)),
               U256_mul(high_limb(m), low_limb(N)),
               U256_mul(high_limb(N), low_limb(m)),
               U256_mul(low_limb(m), low_limb(N)))

\* mul, lines 1087-1108: t = (T + m * N) / R and the two corrections
mul_reduce(T, MN) ==
    LET overflow == overflowing_add(MN.mn_low, T.t_low).overflow
        sum == overflowing_add(
                   U256_add(T.t_high,
                            [high |-> 0, low |-> IF overflow THEN 1 ELSE 0]),
                   MN.mn_high)
        t == sum.value
        overflows_r == [high |-> 0, low |-> IF sum.overflow THEN 1 ELSE 0]
        overflows_modulus ==
            [high |-> 0, low |-> IF gt(t, N) \/ U256_eq(t, N) THEN 1 ELSE 0]
    IN U256_sub(U256_add(t, U256_mul(overflows_r, U256_sub(U256_ZERO, N))),
                U256_mul(overflows_modulus, N))

\* mul, line 1028: m = T * N' mod R
mul_redc(T) == mul_reduce(T, mul_mn(U256_mul(T.t_low, N_PRIME)))

\* Computes lhs * rhs mod N for operands in Montgomery form (REDC)
mul(lhs, rhs) == mul_redc(mul_t(lhs, rhs))

\* Computes lhs + rhs mod N
add(lhs, rhs) ==
    LET sum == overflowing_add(lhs, rhs)
        addition == sum.value
        overflows_r == [high |-> 0, low |-> IF sum.overflow THEN 1 ELSE 0]
        exceeds_modulus ==
            [high |-> 0,
             low |-> IF gt(addition, N) \/ U256_eq(addition, N) THEN 1 ELSE 0]
    IN U256_add(U256_sub(addition, U256_mul(exceeds_modulus, N)),
                U256_mul(overflows_r, U256_sub(U256_ZERO, N)))

\* Computes lhs - rhs mod N
sub(lhs, rhs) == add(lhs, U256_sub(N, rhs))

\* outcome of the first phase of modular_inverse
PhaseOne(kind, u, r, k) == [kind |-> kind, u |-> u, r |-> r, k |-> k]

RECURSIVE first_phase(_, _, _, _, _)
\* `while v > U256::zero() { ... k += 1 }`
first_phase(u, v, r, s, k) ==
    IF cmp(v, U256_ZERO) # "Greater" THEN PhaseOne("return", u, r, k)
    ELSE LET u_and_one == bitand(u, U256_ONE)
             v_and_one == bitand(v, U256_ONE)
         IN IF u_and_one.kind = "panic" THEN PhaseOne("panic", u, r, k)
            ELSE IF u_and_one.value = U256_ZERO
            THEN LET half == U256_div(u, from_u64(2))
                 IN IF half.kind = "panic" THEN PhaseOne("panic", u, r, k)
                    ELSE first_phase(half.value, v, r,
                                     U256_mul(s, from_u64(2)), k + 1)
            ELSE IF v_and_one.kind = "panic" THEN PhaseOne("panic", u, r, k)
            ELSE IF v_and_one.value = U256_ZERO
            THEN LET half == U256_div(v, from_u64(2))
                 IN IF half.kind = "panic" THEN PhaseOne("panic", u, r, k)
                    ELSE first_phase(u, half.value,
                                     U256_mul(r, from_u64(2)), s, k + 1)
            ELSE IF cmp(u, v) = "Greater"
            THEN LET half == U256_div(U256_sub(u, v), from_u64(2))
                 IN IF half.kind = "panic" THEN PhaseOne("panic", u, r, k)
                    ELSE first_phase(half.value, v, U256_add(r, s),
                                     U256_mul(s, from_u64(2)), k + 1)
            ELSE LET half == U256_div(U256_sub(v, u), from_u64(2))
                 IN IF half.kind = "panic" THEN PhaseOne("panic", u, r, k)
                    ELSE first_phase(u, half.value, add(r, r),
                                     U256_add(s, r), k + 1)

RECURSIVE second_phase(_, _)
\* `for _ in 0..(k - 256) { ... }` with n iterations left
second_phase(r, n) ==
    IF n <= 0 THEN Returned(r)
    ELSE LET r_and_one == bitand(r, U256_ONE)
             one_and_a == bitand(U256_ONE, N)
             half_r == U256_div(r, from_u64(2))
             half_a == U256_div(N, from_u64(2))
         IN IF r_and_one.kind = "panic" THEN Panicked
            ELSE IF r_and_one.value = U256_ZERO
            THEN IF half_r.kind = "panic" THEN Panicked
                 ELSE second_phase(half_r.value, n - 1)
            ELSE IF half_r.kind = "panic" \/ half_a.kind = "panic"
                    \/ one_and_a.kind = "panic"
                    \/ bitand(one_and_a.value, r).kind = "panic"
            THEN Panicked
            ELSE second_phase(
                     U256_add(U256_add(half_r.value, half_a.value),
                              bitand(one_and_a.value, r).value),
                     n - 1)

\* modular_inverse, line 957: `Some(mul(a - r, R_SQUARED))`
inverse_scale(two) ==
    IF two.kind = "panic" THEN Panicked
    ELSE Some(mul(U256_sub(N, two.value), R_SQUARED))

\* modular_inverse, lines 938-955: the GCD test, `if r >= a { r -= a }` and
\* the second phase, from the outcome of the first
inverse_finish(one) ==
    IF one.kind = "panic" THEN Panicked
    ELSE IF one.u # U256_ONE THEN None
    ELSE inverse_scale(
             second_phase(IF cmp(one.r, N) # "Less" THEN U256_sub(one.r, N)
                          ELSE one.r,
                          one.k - U256Bits))

\* Returns the multiplicative inverse in Montgomery form: Some, None or a panic
modular_inverse(b) == inverse_finish(first_phase(N, b, U256_ZERO, U256_ONE, 0))

\* `.unwrap()` of the inverse and the multiplication by it
div_unwrap(lhs, inv) ==
    IF inv.kind = "Some" THEN Returned(mul(lhs, inv.value)) ELSE Panicked

\* Computes lhs / rhs mod N: `mul(lhs, modular_inverse(rhs).unwrap())`
div(lhs, rhs) == div_unwrap(lhs, modular_inverse(rhs))

(***************************************************************************)
(* impl BaseFelt / Felt / One / Zero / Neg for BaseFelt.  A BaseFelt is    *)
(* modelled by the U256 it wraps.                                          *)
(***************************************************************************)
new(value) == mul(value, R_SQUARED)

Felt_one == mul(U256_ONE, R_SQUARED)

Felt_zero == U256_ZERO

neg(self) == U256_sub(N, self)

as_integer(self) == mul(U256_ONE, self)

inverse(self) == modular_inverse(self)

double(self) ==
    LET half == U256_div(N, from_u64(2))
    IN IF half.kind = "panic" THEN Panicked
       ELSE IF cmp(self, half.value) # "Greater"
       THEN Returned(U256_add(self, self))
       ELSE Returned(U256_sub(self, U256_sub(N, self)))

\* Felt::square_in_place: the running base power is squared
square_in_place(self) == mul(self, self)

RECURSIVE pow_loop(_, _, _)
\* `while !power.is_zero() { ... }`
pow_loop(res, power, accumulator) ==
    IF is_zero(power) THEN Returned(res)
    ELSE LET bit == bitand(power, U256_ONE)
         IN IF bit.kind = "panic" THEN Panicked
            ELSE pow_loop(IF bit.value = U256_ONE THEN mul(res, accumulator)
                          ELSE res,
                          shr(power, U256_ONE),
                          square_in_place(accumulator))

pow(self, power) ==
    IF is_zero(power) THEN Returned(Felt_one)
    ELSE IF self = Felt_zero THEN Returned(Felt_zero)
    ELSE pow_loop(Felt_one, power, self)

(***************************************************************************)
(* constraint.rs: the constraint polynomials.  The coefficient field F is  *)
(* a type parameter; the model instantiates it with the integers modulo    *)
(* FieldP.  An Element is a record [kind, index], a variable a record      *)
(* [element, power], Variables a sequence of variables, a Term a record    *)
(* [coeff, vars] and a Constraint a sequence of Terms.                     *)
(***************************************************************************)
\* the modulus of the coefficient field F
FieldP == 3

F == 0 .. (FieldP - 1)

F_zero == 0

F_one == 1 % FieldP

F_add(a, b) == (a + b) % FieldP

F_mul(a, b) == (a * b) % FieldP

F_neg(a) == (FieldP - a) % FieldP

F_is_zero(a) == a = F_zero

\* `Element::Curr(index)`
Element_Curr(index) == [kind |-> "Curr", index |-> index]

\* `Element::Next(index)`
Element_Next(index) == [kind |-> "Next", index |-> index]

\* the derived Ord of usize
usize_cmp(a, b) == IF a < b THEN "Less" ELSE IF a = b THEN "Equal" ELSE "Greater"

\* the derived Ord of Element: the variant first, then the column index
Element_cmp(a, b) ==
    IF a.kind = b.kind THEN usize_cmp(a.index, b.index)
    ELSE IF a.kind = "Curr" THEN "Less"
    ELSE "Greater"

\* the Ord of the tuple (Element, usize)
variable_cmp(a, b) ==
    IF Element_cmp(a.element, b.element) # "Equal"
    THEN Element_cmp(a.element, b.element)
    ELSE usize_cmp(a.power, b.power)

\* `variables.retain(|(_, pow)| *pow != 0)`
retain_nonzero_powers(variables) == SelectSeq(variables, LAMBDA v : v.power # 0)

RECURSIVE insert_variable(_, _)
\* places v behind the entries of the sorted list that are not above it
insert_variable(sorted, v) ==
    IF sorted = <<>> THEN <<v>>
    ELSE IF variable_cmp(v, Head(sorted)) = "Less" THEN <<v>> \o sorted
    ELSE <<Head(sorted)>> \o insert_variable(Tail(sorted), v)

RECURSIVE sort_variables(_)
\* `variables.sort()`
sort_variables(variables) ==
    IF variables = <<>> THEN <<>>
    ELSE insert_variable(sort_variables(SubSeq(variables, 1, Len(variables) - 1)),
                         variables[Len(variables)])

\* one iteration of the loop of Variables::combine
combine_step(combined_variables, curr) ==
    IF combined_variables # <<>>
    THEN IF combined_variables[Len(combined_variables)].element = curr.element
         THEN [combined_variables EXCEPT ![Len(combined_variables)].power =
                   @ + curr.power]
         ELSE combined_variables
    ELSE Append(combined_variables, curr)

RECURSIVE combine_loop(_, _)
combine_loop(variables, combined_variables) ==
    IF variables = <<>> THEN combined_variables
    ELSE combine_loop(Tail(variables),
                      combine_step(combined_variables, Head(variables)))

\* Variables::combine
Variables_combine(variables) == combine_loop(variables, <<>>)

\* Variables::new
Variables_new(variables) ==
    Variables_combine(sort_variables(retain_nonzero_powers(variables)))

\* `Variables::default()`
Variables_default == <<>>

RECURSIVE Variables_degree(_)
\* Variables::degree
Variables_degree(self) ==
    IF self = <<>> THEN 0
    ELSE Variables_degree(SubSeq(self, 1, Len(self) - 1)) + self[Len(self)].power

RECURSIVE zip_cmp(_, _)
\* the loop of partial_cmp over `self.0.iter().zip(&other.0)`
zip_cmp(self, other) ==
    IF self = <<>> \/ other = <<>> THEN "Equal"
    ELSE IF Head(other).element = Head(self).element
    THEN IF Head(self).power # Head(other).power
         THEN usize_cmp(Head(self).power, Head(other).power)
         ELSE zip_cmp(Tail(self), Tail(other))
    ELSE Element_cmp(Head(other).element, Head(self).element)

\* the comparison without its degree test
Variables_cmp_DegreeIgnored(self, other) == zip_cmp(self, other)

\* impl PartialOrd / Ord for Variables
Variables_cmp(self, other) ==
    IF Variables_degree(self) # Variables_degree(other)
    THEN usize_cmp(Variables_degree(self), Variables_degree(other))
    ELSE zip_cmp(self, other)

\* Term::new
Term_new(coefficient, variables) == [coeff |-> coefficient, vars |-> variables]

\* Term::degree
Term_degree(self) == Variables_degree(self.vars)

\* impl Mul<&Term<F>> for &Term<F>
Term_mul(self, rhs) ==
    Term_new(F_mul(self.coeff, rhs.coeff), Variables_new(self.vars \o rhs.vars))

RECURSIVE insert_term(_, _)
insert_term(sorted, t) ==
    IF sorted = <<>> THEN <<t>>
    ELSE IF Variables_cmp(t.vars, Head(sorted).vars) = "Less" THEN <<t>> \o sorted
    ELSE <<Head(sorted)>> \o insert_term(Tail(sorted), t)

RECURSIVE sort_terms(_)
\* `terms.sort_by(|a, b| a.1.cmp(&b.1))`
sort_terms(terms) ==
    IF terms = <<>> THEN <<>>
    ELSE insert_term(sort_terms(SubSeq(terms, 1, Len(terms) - 1)),
                     terms[Len(terms)])

\* one iteration of the loop of Constraint::combine_terms
combine_terms_step(combined_terms, curr) ==
    IF combined_terms # <<>>
    THEN IF combined_terms[Len(combined_terms)].vars = curr.vars
         THEN [combined_terms EXCEPT ![Len(combined_terms)].coeff =
                   F_add(@, curr.coeff)]
         ELSE combined_terms
    ELSE Append(combined_terms, curr)

RECURSIVE combine_terms_loop(_, _)
combine_terms_loop(terms, combined_terms) ==
    IF terms = <<>> THEN combined_terms
    ELSE combine_terms_loop(Tail(terms),
                            combine_terms_step(combined_terms, Head(terms)))

\* Constraint::combine_terms
combine_terms(terms) == combine_terms_loop(terms, <<>>)

\* Constraint::remove_zeros
remove_zeros(self) == SelectSeq(self, LAMBDA t : ~F_is_zero(t.coeff))

\* Constraint::new
Constraint_new(terms) == remove_zeros(combine_terms(sort_terms(terms)))

\* `max` of two usize values
usize_max(a, b) == IF a >= b THEN a ELSE b

RECURSIVE degree_max(_, _)
\* `.map(|term| term.degree()).max()` over the terms not yet visited
degree_max(terms, largest) ==
    IF terms = <<>> THEN largest
    ELSE degree_max(Tail(terms), usize_max(largest, Term_degree(Head(terms))))

\* Constraint::degree: the largest term degree, 0 for the empty list
Constraint_degree(self) == degree_max(self, 0)

\* impl From<Element> for Constraint<F>
Constraint_from_element(element) ==
    Constraint_new(<<Term_new(F_one,
                              Variables_new(<<[element |-> element, power |-> 1]>>))>>)

\* Column::curr
Column_curr(index) == Constraint_from_element(Element_Curr(index))

\* Column::next
Column_next(index) == Constraint_from_element(Element_Next(index))

\* impl From<F> for Constraint<F>
Constraint_from(element) == <<Term_new(element, Variables_default)>>

\* Zero::zero for Constraint<F>
Constraint_zero == <<>>

\* Zero::is_zero for Constraint<F>
Constraint_is_zero(self) ==
    self = <<>> \/ \A i \in DOMAIN self : F_is_zero(self[i].coeff)

\* the products of one term of the left operand with every term of the right
mul_row(lhs_term, rhs) == [j \in DOMAIN rhs |-> Term_mul(lhs_term, rhs[j])]

RECURSIVE mul_rows(_, _)
mul_rows(self, rhs) ==
    IF self = <<>> THEN <<>>
    ELSE mul_row(Head(self), rhs) \o mul_rows(Tail(self), rhs)

\* impl Mul<&Constraint<F>> for &Constraint<F>
Constraint_mul(self, rhs) ==
    IF Constraint_is_zero(self) \/ Constraint_is_zero(rhs) THEN Constraint_zero
    ELSE mul_rows(self, rhs)

\* `which` of the loop of add: the comparison of the two peeked terms
add_which(lhs_rest, rhs_rest) ==
    IF lhs_rest # <<>> /\ rhs_rest # <<>>
    THEN Variables_cmp(Head(lhs_rest).vars, Head(rhs_rest).vars)
    ELSE IF lhs_rest # <<>> THEN "Less"
    ELSE IF rhs_rest # <<>> THEN "Greater"
    ELSE "None"

RECURSIVE add_loop(_, _, _)
\* the loop of add over the two peekable iterators
add_loop(lhs_rest, rhs_rest, result_terms) ==
    CASE add_which(lhs_rest, rhs_rest) = "Less" ->
             add_loop(Tail(lhs_rest), rhs_rest,
                      Append(result_terms, Head(lhs_rest)))
      [] add_which(lhs_rest, rhs_rest) = "Equal" ->
             add_loop(Tail(lhs_rest), Tail(rhs_rest),
                      IF F_is_zero(F_add(Head(rhs_rest).coeff, Head(lhs_rest).coeff))
                      THEN result_terms
                      ELSE Append(result_terms,
                                  Term_new(F_add(Head(rhs_rest).coeff,
                                                 Head(lhs_rest).coeff),
                                           Head(rhs_rest).vars)))
      [] add_which(lhs_rest, rhs_rest) = "Greater" ->
             add_loop(lhs_rest, Tail(rhs_rest),
                      Append(result_terms, Head(rhs_rest)))
      [] add_which(lhs_rest, rhs_rest) = "None" -> result_terms

\* impl Add<&Constraint<F>> for &Constraint<F>
Constraint_add(self, rhs) == add_loop(self, rhs, <<>>)

\* impl Neg for Constraint<F>
Constraint_neg(self) ==
    [i \in DOMAIN self |-> Term_new(F_neg(self[i].coeff), self[i].vars)]

\* impl Sub<&Constraint<F>> for &Constraint<F>
Constraint_sub(self, rhs) == Constraint_add(self, Constraint_neg(rhs))

\* impl Mul<F> for Constraint<F>
Constraint_mul_scalar(self, rhs) ==
    [i \in DOMAIN self |-> Term_new(F_mul(self[i].coeff, rhs), self[i].vars)]

\* impl Add<F> for Constraint<F>
Constraint_add_scalar(self, rhs) == Constraint_add(self, Constraint_from(rhs))

\* impl Sub<F> for Constraint<F>
Constraint_sub_scalar(self, rhs) ==
    Constraint_add(self, Constraint_from(F_neg(rhs)))

\* helper::are_eq
are_eq(a, b) == Constraint_sub(a, b)

\* helper::is_zero
helper_is_zero(a) == a

\* helper::is_one
helper_is_one(a) == Constraint_sub_scalar(a, F_one)

\* helper::is_binary
is_binary(a) == Constraint_sub(Constraint_mul(a, a), a)

(***************************************************************************)
(* State.                                                                  *)
(*   call, args, ret     one call of a field operation: its name, its      *)
(*                       operands and its outcome                          *)
(*   x, y, steps         two BaseFelt values built by a sequence of field  *)
(*                       operations, and the length of the sequence        *)
(*   pc, air, trace, channel, trees, proof                                 *)
(*                       one run of Prover::generate_proof                 *)
(*   polys, ops, last    constraint polynomials built by a sequence of the *)
(*                       public operations of constraint.rs                *)
(***************************************************************************)
VARIABLES call, args, ret, x, y, steps, pc, air, trace, channel, trees, proof,
          polys, ops, last

vars == <<call, args, ret, x, y, steps, pc, air, trace, channel, trees, proof,
          polys, ops, last>>

feltVars == <<call, args, ret>>

seqVars == <<x, y, steps>>

proverVars == <<pc, air, trace, channel, trees, proof>>

constraintVars == <<polys, ops, last>>

\* longest sequence of field operations explored
MaxSteps == 3

\* largest number of challenges an AIR asks for
MaxChallenges == 2

\* largest composition degree explored
MaxDegree == 2

\* longest sequence of constraint operations explored
MaxOps == 5

\* number of trace columns the constraints refer to
NumColumns == 2

\* second operands and seeds: the limb boundaries, the values that share a
\* limb with N, and the extremes
OperandInts ==
    {0, 1, 2, 3, LimbMod - 3, LimbMod, ToInt(N) - 1, ToInt(N), WideMod - 1}

Operands == {FromInt(v) : v \in OperandInts}

FeltIdle ==
    /\ call = "idle"
    /\ args = <<>>
    /\ ret = Returned(U256_ZERO)

SeqIdle ==
    /\ x = Felt_zero
    /\ y = Felt_zero
    /\ steps = 0

ProverIdle ==
    /\ pc = "idle"
    /\ air = [ce_blowup_factor |-> 1, lde_blowup_factor |-> 1,
              num_challenges |-> 0, composition_degree |-> 1]
    /\ trace = [extension |-> FALSE, composition_degree |-> 1,
                satisfied |-> TRUE, debug_assertions |-> FALSE]
    /\ channel = <<>>
    /\ trees = <<>>
    /\ proof = [kind |-> "none", commitments |-> <<>>]

ConstraintIdle ==
    /\ polys = <<Constraint_zero, Constraint_zero, Constraint_zero>>
    /\ ops = 0
    /\ last = [op |-> "zero", lhs |-> <<>>, rhs |-> <<>>, scalar |-> 0]

(***************************************************************************)
(* Single calls of the field operations, on every stored value.            *)
(***************************************************************************)
Init == FeltIdle /\ SeqIdle /\ ProverIdle /\ ConstraintIdle

Call(name, operands, outcome) ==
    /\ call' = name
    /\ args' = operands
    /\ ret' = outcome
    /\ UNCHANGED <<seqVars, proverVars, constraintVars>>

CallNew ==
    /\ call = "idle"
    /\ \E v \in U256 : Call("new", <<v>>, Returned(new(v)))

\* `BaseFelt::new(v).as_integer()`
CallAsIntegerOfNew ==
    /\ call = "new"
    /\ call' = "new.as_integer"
    /\ ret' = Returned(as_integer(ret.value))
    /\ UNCHANGED <<args, seqVars, proverVars, constraintVars>>

CallAsInteger ==
    /\ call = "idle"
    /\ \E a \in U256 : Call("as_integer", <<a>>, Returned(as_integer(a)))

CallMul ==
    /\ call = "idle"
    /\ \E a \in U256, b \in Operands : Call("mul", <<a, b>>, Returned(mul(a, b)))

\* `(BaseFelt::new(v) * BaseFelt::new(w)).as_integer()`
CallMulOfNew ==
    /\ call = "idle"
    /\ \E v \in Operands, w \in Operands :
           Call("new*new.as_integer", <<v, w>>,
                Returned(as_integer(mul(new(v), new(w)))))

CallAdd ==
    /\ call = "idle"
    /\ \E a \in U256, b \in Operands : Call("add", <<a, b>>, Returned(add(a, b)))

CallSub ==
    /\ call = "idle"
    /\ \E a \in U256, b \in Operands : Call("sub", <<a, b>>, Returned(sub(a, b)))

CallNeg ==
    /\ call = "idle"
    /\ \E a \in U256 : Call("neg", <<a>>, Returned(neg(a)))

CallInverse ==
    /\ call = "idle"
    /\ \E a \in U256 : Call("inverse", <<a>>, inverse(a))

CallDiv ==
    /\ call = "idle"
    /\ \E a \in U256, b \in Operands : Call("div", <<a, b>>, div(a, b))

CallDouble ==
    /\ call = "idle"
    /\ \E a \in U256 : Call("double", <<a>>, double(a))

CallPow ==
    /\ call = "idle"
    /\ \E a \in U256, p \in Operands : Call("pow", <<a, p>>, pow(a, p))

Next ==
    \/ CallNew
    \/ CallAsIntegerOfNew
    \/ CallAsInteger
    \/ CallMul
    \/ CallMulOfNew
    \/ CallAdd
    \/ CallSub
    \/ CallNeg
    \/ CallInverse
    \/ CallDiv
    \/ CallDouble
    \/ CallPow

Spec == Init /\ [][Next]_vars

(***************************************************************************)
(* Sequences of field operations: each operation leaves its result in x    *)
(* and the previous x in y.                                                *)
(***************************************************************************)
SeqInit == FeltIdle /\ SeqIdle /\ ProverIdle /\ ConstraintIdle

Push(value) ==
    /\ steps < MaxSteps
    /\ x' = value
    /\ y' = x
    /\ steps' = steps + 1
    /\ UNCHANGED <<feltVars, proverVars, constraintVars>>

SeqNew == \E v \in Operands : Push(new(v))

SeqZero == Push(Felt_zero)

SeqOne == Push(Felt_one)

SeqAdd == Push(add(x, y))

SeqSub == Push(sub(x, y))

SeqMul == Push(mul(x, y))

SeqNeg == Push(neg(x))

SeqNext ==
    \/ SeqNew
    \/ SeqZero
    \/ SeqOne
    \/ SeqAdd
    \/ SeqSub
    \/ SeqMul
    \/ SeqNeg

SpecSeq == SeqInit /\ [][SeqNext]_vars

(***************************************************************************)
(* Prover::generate_proof, one action per statement group.  The AIR, the   *)
(* trace and the build configuration are the inputs of the run:            *)
(*   air.ce_blowup_factor, air.lde_blowup_factor, air.num_challenges,      *)
(*   air.composition_degree   what the Air reports                         *)
(*   trace.extension          build_extension_columns returns Some         *)
(*   trace.composition_degree column_degrees()[0] of the interpolated      *)
(*                            composition polynomial                       *)
(*   trace.satisfied          every constraint vanishes on the trace       *)
(*   trace.debug_assertions   cfg(debug_assertions)                        *)
(* channel is the list of ProverChannel calls made so far, trees the list  *)
(* of Merkle trees built so far.                                           *)
(***************************************************************************)
BlowupFactors == {1, 2, 4}

ProverInit ==
    /\ FeltIdle
    /\ SeqIdle
    /\ ConstraintIdle
    /\ pc = "new_air"
    /\ air \in [ce_blowup_factor : BlowupFactors,
                lde_blowup_factor : BlowupFactors,
                num_challenges : 0 .. MaxChallenges,
                composition_degree : 1 .. MaxDegree]
    /\ trace \in [extension : BOOLEAN,
                  composition_degree : 1 .. MaxDegree,
                  satisfied : BOOLEAN,
                  debug_assertions : BOOLEAN]
    /\ channel = <<>>
    /\ trees = <<>>
    /\ proof = [kind |-> "none", commitments |-> <<>>]

\* a failed assert!: the run ends without a Proof
Abort ==
    /\ pc' = "panic"
    /\ proof' = [kind |-> "panic", commitments |-> <<>>]

\* lines 133-137: Air::new and ProverChannel::new
NewAir ==
    /\ pc = "new_air"
    /\ pc' = "check_blowup"
    /\ UNCHANGED <<air, trace, channel, trees, proof, feltVars, seqVars,
                 constraintVars>>

\* CheckBlowup without the assertion
CheckBlowup_Unchecked ==
    /\ pc = "check_blowup"
    /\ pc' = "build_base_trace"
    /\ UNCHANGED <<air, trace, channel, trees, proof, feltVars, seqVars,
                 constraintVars>>

\* lines 139-143: assert!(ce_blowup_factor <= lde_blowup_factor)
CheckBlowup ==
    /\ pc = "check_blowup"
    /\ IF air.ce_blowup_factor <= air.lde_blowup_factor
       THEN pc' = "build_base_trace" /\ UNCHANGED proof
       ELSE Abort
    /\ UNCHANGED <<air, trace, channel, trees, feltVars, seqVars,
                 constraintVars>>

\* lines 145-148: build_trace_commitment(trace.base_columns(), ..)
BuildBaseTrace ==
    /\ pc = "build_base_trace"
    /\ trees' = Append(trees, "base_trace")
    /\ pc' = "commit_base_trace"
    /\ UNCHANGED <<air, trace, channel, proof, feltVars, seqVars,
                 constraintVars>>

\* CommitBaseTrace without the call that absorbs the root
CommitBaseTrace_NotAbsorbed ==
    /\ pc = "commit_base_trace"
    /\ pc' = "get_challenges"
    /\ UNCHANGED <<air, trace, channel, trees, proof, feltVars, seqVars,
                 constraintVars>>

\* line 150: channel.commit_base_trace(base_trace_lde_tree.root())
CommitBaseTrace ==
    /\ pc = "commit_base_trace"
    /\ channel' = Append(channel, "commit_base_trace")
    /\ pc' = "get_challenges"
    /\ UNCHANGED <<air, trace, trees, proof, feltVars, seqVars,
                 constraintVars>>

\* lines 153-155: channel.get_challenges(air.num_challenges())
GetChallenges ==
    /\ pc = "get_challenges"
    /\ channel' = Append(channel, "get_challenges")
    /\ pc' = "build_extension"
    /\ UNCHANGED <<air, trace, trees, proof, feltVars, seqVars,
                 constraintVars>>

\* lines 161-163: trace.build_extension_columns(&challenges) and, when it
\* is Some, build_trace_commitment(&extension_matrix, ..)
BuildExtension ==
    /\ pc = "build_extension"
    /\ IF trace.extension
       THEN trees' = Append(trees, "extension_trace")
            /\ pc' = "commit_extension_trace"
       ELSE pc' = "validate" /\ UNCHANGED trees
    /\ UNCHANGED <<air, trace, channel, proof, feltVars, seqVars,
                 constraintVars>>

\* lines 164-168: channel.commit_extension_trace(..root()), append
CommitExtensionTrace ==
    /\ pc = "commit_extension_trace"
    /\ channel' = Append(channel, "commit_extension_trace")
    /\ pc' = "validate"
    /\ UNCHANGED <<air, trace, trees, proof, feltVars, seqVars,
                 constraintVars>>

\* lines 172-173: #[cfg(debug_assertions)] air.validate(..)
Validate ==
    /\ pc = "validate"
    /\ IF trace.debug_assertions /\ ~trace.satisfied
       THEN Abort
       ELSE pc' = "get_constraint_composition_coeffs" /\ UNCHANGED proof
    /\ UNCHANGED <<air, trace, channel, trees, feltVars, seqVars,
                 constraintVars>>

\* lines 175-176: channel.get_constraint_composition_coeffs()
GetCompositionCoeffs ==
    /\ pc = "get_constraint_composition_coeffs"
    /\ channel' = Append(channel, "get_constraint_composition_coeffs")
    /\ pc' = "evaluate"
    /\ UNCHANGED <<air, trace, trees, proof, feltVars, seqVars,
                 constraintVars>>

\* lines 177-178: constraint_evaluator.evaluate, interpolate_columns
Evaluate ==
    /\ pc = "evaluate"
    /\ pc' = "check_degree"
    /\ UNCHANGED <<air, trace, channel, trees, proof, feltVars, seqVars,
                 constraintVars>>

\* CheckDegree without the assertion
CheckDegree_Unchecked ==
    /\ pc = "check_degree"
    /\ pc' = "build_constraint_commitment"
    /\ UNCHANGED <<air, trace, channel, trees, proof, feltVars, seqVars,
                 constraintVars>>

\* lines 181-183: assert_eq!(composition_degree, air.composition_degree())
CheckDegree ==
    /\ pc = "check_degree"
    /\ IF trace.composition_degree = air.composition_degree
       THEN pc' = "build_constraint_commitment" /\ UNCHANGED proof
       ELSE Abort
    /\ UNCHANGED <<air, trace, channel, trees, feltVars, seqVars,
                 constraintVars>>

\* lines 185-186: build_constraint_commitment(..)
BuildConstraintCommitment ==
    /\ pc = "build_constraint_commitment"
    /\ trees' = Append(trees, "composition")
    /\ pc' = "return"
    /\ UNCHANGED <<air, trace, channel, proof, feltVars, seqVars,
                 constraintVars>>

\* lines 190-194: Ok(Proof { options, trace_info, commitments: Vec::new() })
ReturnProof ==
    /\ pc = "return"
    /\ proof' = [kind |-> "Ok", commitments |-> <<>>]
    /\ pc' = "done"
    /\ UNCHANGED <<air, trace, channel, trees, feltVars, seqVars,
                 constraintVars>>

ProverNext ==
    \/ NewAir
    \/ CheckBlowup
    \/ BuildBaseTrace
    \/ CommitBaseTrace
    \/ GetChallenges
    \/ BuildExtension
    \/ CommitExtensionTrace
    \/ Validate
    \/ GetCompositionCoeffs
    \/ Evaluate
    \/ CheckDegree
    \/ BuildConstraintCommitment
    \/ ReturnProof

SpecProver == ProverInit /\ [][ProverNext]_vars

(***************************************************************************)
(* Single calls of the U256 operations, on every value.                    *)
(***************************************************************************)
\* second operands: zero, one, small divisors, the limb boundary, values
\* with a nonzero high limb and the extremes
U256OperandInts ==
    {0, 1, 2, 3, 10, LimbMod - 3, LimbMod - 1, LimbMod, LimbMod + 1,
     2 * LimbMod + 5, ToInt(N) - 1, ToInt(N), WideMod - 1}

U256Operands == {FromInt(v) : v \in U256OperandInts}

CallU256Eq ==
    /\ call = "idle"
    /\ \E a \in U256, b \in U256Operands :
           Call("U256::eq", <<a, b>>, [kind |-> "return", value |-> U256_eq(a, b)])

CallU256DivRem ==
    /\ call = "idle"
    /\ \E a \in U256, d \in U256Operands :
           Call("U256::div_rem", <<a, d>>, div_rem(a, d))

CallU256Div ==
    /\ call = "idle"
    /\ \E a \in U256, d \in U256Operands : Call("U256::div", <<a, d>>, U256_div(a, d))

CallU256DivAssign ==
    /\ call = "idle"
    /\ \E a \in U256, d \in U256Operands :
           Call("U256::div_assign", <<a, d>>, U256_div_assign(a, d))

CallU256Rem ==
    /\ call = "idle"
    /\ \E a \in U256, d \in U256Operands : Call("U256::rem", <<a, d>>, U256_rem(a, d))

CallU256RemAssign ==
    /\ call = "idle"
    /\ \E a \in U256, d \in U256Operands :
           Call("U256::rem_assign", <<a, d>>, U256_rem_assign(a, d))

\* shift amounts: every amount up to twice the width, the first amounts
\* that do not fit a usize, and amounts with a nonzero high limb
ShiftInts ==
    (0 .. (2 * U256Bits)) \cup
    {UsizeMod + 1, 2 * UsizeMod, 2 * UsizeMod + U256Bits, LimbMod - 1, LimbMod,
     LimbMod + 1, LimbMod + UsizeMod, WideMod - 1}

ShiftAmounts == {FromInt(v) : v \in ShiftInts}

\* `a << s`
CallU256Shl ==
    /\ call = "idle"
    /\ \E a \in U256, s \in ShiftAmounts :
           Call("U256::shl", <<a, s>>, Returned(shl(a, s)))

\* `a >> s`
CallU256Shr ==
    /\ call = "idle"
    /\ \E a \in U256, s \in ShiftAmounts :
           Call("U256::shr", <<a, s>>, Returned(shr(a, s)))

\* `a + b`
CallU256Add ==
    /\ call = "idle"
    /\ \E a \in U256, b \in U256Operands :
           Call("U256::add", <<a, b>>, Returned(U256_add(a, b)))

\* `a - b`
CallU256Sub ==
    /\ call = "idle"
    /\ \E a \in U256, b \in U256Operands :
           Call("U256::sub", <<a, b>>, Returned(U256_sub(a, b)))

\* `(a + b) - b`
CallU256AddSub ==
    /\ call = "idle"
    /\ \E a \in U256, b \in U256Operands :
           Call("U256::add.sub", <<a, b>>, Returned(U256_sub(U256_add(a, b), b)))

\* `a & b`
CallU256BitAnd ==
    /\ call = "idle"
    /\ \E a \in U256, b \in U256Operands :
           Call("U256::bitand", <<a, b>>, bitand(a, b))

\* `a * b`
CallU256Mul ==
    /\ call = "idle"
    /\ \E a \in U256, b \in U256Operands :
           Call("U256::mul", <<a, b>>, Returned(U256_mul(a, b)))

U256Next ==
    \/ CallU256Eq
    \/ CallU256DivRem
    \/ CallU256Div
    \/ CallU256DivAssign
    \/ CallU256Rem
    \/ CallU256RemAssign
    \/ CallU256Shl
    \/ CallU256Shr
    \/ CallU256Add
    \/ CallU256Sub
    \/ CallU256AddSub
    \/ CallU256BitAnd
    \/ CallU256Mul

SpecU256 == Init /\ [][U256Next]_vars

(***************************************************************************)
(* Constraint polynomials built by sequences of the public operations.     *)
(* polys holds the three most recent results, newest first; last names the *)
(* operation that produced polys[1] and its operands.                      *)
(***************************************************************************)
ConstraintInit == FeltIdle /\ SeqIdle /\ ProverIdle /\ ConstraintIdle

Columns == 0 .. (NumColumns - 1)

\* the operand registers of a binary operation
OperandPairs == {<<1, 1>>, <<1, 2>>, <<2, 1>>}

Produce(op, lhs, rhs, scalar, result) ==
    /\ ops < MaxOps
    /\ polys' = <<result, polys[1], polys[2]>>
    /\ ops' = ops + 1
    /\ last' = [op |-> op, lhs |-> lhs, rhs |-> rhs, scalar |-> scalar]
    /\ UNCHANGED <<feltVars, seqVars, proverVars>>

ConCurr == \E i \in Columns : Produce("curr", <<>>, <<>>, 0, Column_curr(i))

ConNext == \E i \in Columns : Produce("next", <<>>, <<>>, 0, Column_next(i))

ConFrom == \E f \in F : Produce("from", <<>>, <<>>, f, Constraint_from(f))

ConAdd ==
    \E pair \in OperandPairs :
        Produce("add", polys[pair[1]], polys[pair[2]], 0,
                Constraint_add(polys[pair[1]], polys[pair[2]]))

ConSub ==
    \E pair \in OperandPairs :
        Produce("sub", polys[pair[1]], polys[pair[2]], 0,
                Constraint_sub(polys[pair[1]], polys[pair[2]]))

ConMul ==
    \E pair \in OperandPairs :
        Produce("mul", polys[pair[1]], polys[pair[2]], 0,
                Constraint_mul(polys[pair[1]], polys[pair[2]]))

ConNeg == Produce("neg", polys[1], <<>>, 0, Constraint_neg(polys[1]))

ConMulScalar ==
    \E f \in F :
        Produce("mul_scalar", polys[1], <<>>, f, Constraint_mul_scalar(polys[1], f))

ConAddScalar ==
    \E f \in F :
        Produce("add_scalar", polys[1], <<>>, f, Constraint_add_scalar(polys[1], f))

ConSubScalar ==
    \E f \in F :
        Produce("sub_scalar", polys[1], <<>>, f, Constraint_sub_scalar(polys[1], f))

ConAreEq ==
    \E pair \in OperandPairs :
        Produce("are_eq", polys[pair[1]], polys[pair[2]], 0,
                are_eq(polys[pair[1]], polys[pair[2]]))

ConIsZero == Produce("is_zero", polys[1], <<>>, 0, helper_is_zero(polys[1]))

ConIsOne == Produce("is_one", polys[1], <<>>, 0, helper_is_one(polys[1]))

ConIsBinary == Produce("is_binary", polys[1], <<>>, 0, is_binary(polys[1]))

ConstraintNext ==
    \/ ConCurr
    \/ ConNext
    \/ ConFrom
    \/ ConAdd
    \/ ConSub
    \/ ConMul
    \/ ConNeg
    \/ ConMulScalar
    \/ ConAddScalar
    \/ ConSubScalar
    \/ ConAreEq
    \/ ConIsZero
    \/ ConIsOne
    \/ ConIsBinary

SpecConstraint == ConstraintInit /\ [][ConstraintNext]_vars

(***************************************************************************)
(* Properties.                                                             *)
(***************************************************************************)
\* the integer of a stored value is below the modulus
Canonical(a) == ToInt(a) < ToInt(N)

\* R^-1 mod N
RInv == CHOOSE ri \in 1 .. (ToInt(N) - 1) : ((WideMod % ToInt(N)) * ri) % ToInt(N) = 1

\* a * b * R^-1 mod N
MontgomeryProduct(a, b) ==
    FromInt(((((ToInt(a) * ToInt(b)) % ToInt(N)) * RInv) % ToInt(N)))

\* C1: for integers v, w in [0, N), (new(v) * new(w)).as_integer() is
\* v * w mod N; and Montgomery multiplication of two stored values a, b in
\* [0, N) returns a * b * R^-1 mod N.
C1_MulIsProductModN ==
    /\ (call = "new*new.as_integer" /\ Canonical(args[1]) /\ Canonical(args[2]))
         => ret = Returned(FromInt((ToInt(args[1]) * ToInt(args[2])) % ToInt(N)))
    /\ (call = "mul" /\ Canonical(args[1]) /\ Canonical(args[2]))
         => ret = Returned(MontgomeryProduct(args[1], args[2]))

\* C2: after any sequence of new, zero, one, add, sub, mul, neg the stored
\* value of every resulting element is in [0, N).
C2_StoredValueBelowModulus == Canonical(x) /\ Canonical(y)

\* C3: for every integer v in [0, N), new(v).as_integer() returns v.
C3_RoundTrip ==
    (call = "new.as_integer" /\ Canonical(args[1])) => ret = Returned(args[1])

\* C4: for stored values a, b in [0, N), a + b is stored as (a + b) mod N
\* and a - b as (a - b) mod N.
C4_AddSubModN ==
    /\ (call = "add" /\ Canonical(args[1]) /\ Canonical(args[2]))
         => ret = Returned(FromInt((ToInt(args[1]) + ToInt(args[2])) % ToInt(N)))
    /\ (call = "sub" /\ Canonical(args[1]) /\ Canonical(args[2]))
         => ret = Returned(FromInt((ToInt(N) + ToInt(args[1]) - ToInt(args[2]))
                                   % ToInt(N)))

\* C5: for every nonzero field element a, inverse(a) completes with a
\* present value b such that a * b is one, and a / a is one.
C5_InverseOfNonzero ==
    /\ (call = "inverse" /\ Canonical(args[1]) /\ args[1] # U256_ZERO)
         => (ret.kind = "Some" /\ MontgomeryProduct(args[1], ret.value) = Felt_one)
    /\ (call = "div" /\ Canonical(args[1]) /\ args[1] # U256_ZERO
          /\ args[2] = args[1])
         => ret = Returned(Felt_one)

\* C6: inverting a stored value of zero or of N returns None and never
\* aborts.
C6_InverseAbsent ==
    (call = "inverse" /\ args[1] \in {U256_ZERO, N}) => ret = None

\* the elements BaseFelt::new makes from the nonzero integers below N
NonzeroElements == {new(FromInt(v)) : v \in 1 .. (ToInt(N) - 1)}

\* C7: for every nonzero integer a < N, new(a).pow(N - 1) completes and
\* equals new(1).
C7_FermatThroughPow ==
    (call = "pow" /\ args[1] \in NonzeroElements /\ args[2] = U256_sub(N, U256_ONE))
        => ret = Returned(new(U256_ONE))

\* C8: for every field element a, double(a) completes and returns the
\* canonical element a + a, whether a is at most N/2 or above it.
C8_DoubleIsAddSelf ==
    (call = "double" /\ Canonical(args[1]))
        => ret = Returned(FromInt((2 * ToInt(args[1])) % ToInt(N)))

\* C9: a returned Proof lists exactly the base trace root and the
\* composition root, with the extension trace root between them when the
\* trace has extension columns.
C9_CommitmentList ==
    proof.kind = "Ok"
        => proof.commitments =
               IF trace.extension
               THEN <<"base_trace", "extension_trace", "composition">>
               ELSE <<"base_trace", "composition">>

\* position of a channel call in the stage order
StageRank(event) ==
    CASE event = "commit_base_trace" -> 1
      [] event = "get_challenges" -> 2
      [] event = "commit_extension_trace" -> 3
      [] event = "get_constraint_composition_coeffs" -> 4

\* entry j of the channel precedes entry i and is the call `event`
Before(event, i) == \E j \in 1 .. (i - 1) : channel[j] = event

\* C10: the trace challenges are drawn only after the base trace root was
\* absorbed, the composition coefficients only after the base trace root
\* and (with extension columns) the extension trace root were absorbed, and
\* the channel calls never run against the stage order.
C10_StagesOrdered ==
    /\ \A i \in DOMAIN channel :
           /\ channel[i] = "get_challenges" => Before("commit_base_trace", i)
           /\ channel[i] = "get_constraint_composition_coeffs"
                => /\ Before("commit_base_trace", i)
                   /\ Before("get_challenges", i)
                   /\ trace.extension => Before("commit_extension_trace", i)
    /\ \A i, j \in DOMAIN channel :
           i < j => StageRank(channel[i]) < StageRank(channel[j])

\* a run with extension columns has drawn its challenges and coefficients
C10_Witness ==
    /\ pc = "done"
    /\ trace.extension
    /\ channel = <<"commit_base_trace", "get_challenges",
                   "commit_extension_trace",
                   "get_constraint_composition_coeffs">>

\* the Merkle tree `name` has been built
Built(name) == \E i \in DOMAIN trees : trees[i] = name

\* C11: when the degree of the interpolated composition polynomial differs
\* from the declared composition degree, the composition matrix is never
\* Merkle-committed and no Proof is returned.
C11_DegreeMismatchCaught ==
    trace.composition_degree # air.composition_degree
        => /\ ~Built("composition")
           /\ pc \notin {"build_constraint_commitment", "return", "done"}
           /\ proof.kind # "Ok"

\* a run that reached the degree comparison with a mismatch and failed there
C11_Witness ==
    /\ trace.composition_degree # air.composition_degree
    /\ pc = "panic"
    /\ proof.kind = "panic"
    /\ Len(channel) > 0
    /\ channel[Len(channel)] = "get_constraint_composition_coeffs"

\* C12: when the constraint-evaluation blowup factor exceeds the LDE blowup
\* factor, no trace is interpolated or committed, no root is absorbed, no
\* challenge is drawn and no Proof is returned.
C12_BlowupCheckedFirst ==
    air.ce_blowup_factor > air.lde_blowup_factor
        => /\ trees = <<>>
           /\ channel = <<>>
           /\ pc \in {"new_air", "check_blowup", "panic"}
           /\ proof.kind # "Ok"

\* a run whose blowup factors were rejected
C12_Witness ==
    /\ air.ce_blowup_factor > air.lde_blowup_factor
    /\ pc = "panic"
    /\ proof.kind = "panic"

\* the term list is strictly ascending in the Variables order (sorted, no
\* two terms with equal Variables) and has no zero coefficient
Normalized(c) ==
    /\ \A i \in 1 .. (Len(c) - 1) : Variables_cmp(c[i].vars, c[i + 1].vars) = "Less"
    /\ \A i \in DOMAIN c : ~F_is_zero(c[i].coeff)

\* C13: every Constraint produced by a sequence of the public operations
\* has a term list sorted by the Variables order, with no two terms of equal
\* Variables and no zero coefficient.
C13_TermListNormalized == \A i \in DOMAIN polys : Normalized(polys[i])

\* C14: for constraint polynomials a and b built from column references,
\* neither the zero polynomial, degree(a * b) = degree(a) + degree(b).
C14_DegreeOfProduct ==
    (/\ last.op = "mul"
     /\ Normalized(last.lhs) /\ ~Constraint_is_zero(last.lhs)
     /\ Normalized(last.rhs) /\ ~Constraint_is_zero(last.rhs))
        => Constraint_degree(polys[1])
               = Constraint_degree(last.lhs) + Constraint_degree(last.rhs)

\* the column references a constraint can name
Elements ==
    {Element_Curr(i) : i \in Columns} \cup {Element_Next(i) : i \in Columns}

\* the assignments of field values to the column references
Assignments == [Elements -> F]

RECURSIVE F_pow(_, _)
F_pow(base, power) == IF power = 0 THEN F_one ELSE F_mul(base, F_pow(base, power - 1))

RECURSIVE EvalVariables(_, _)
\* the value of a product of powers under an assignment
EvalVariables(variables, assignment) ==
    IF variables = <<>> THEN F_one
    ELSE F_mul(F_pow(assignment[Head(variables).element], Head(variables).power),
               EvalVariables(Tail(variables), assignment))

RECURSIVE Eval(_, _)
\* the value of a constraint polynomial under an assignment
Eval(c, assignment) ==
    IF c = <<>> THEN F_zero
    ELSE F_add(F_mul(Head(c).coeff, EvalVariables(Head(c).vars, assignment)),
               Eval(Tail(c), assignment))

\* C15: for every constraint polynomial a built with the public operations
\* and every assignment of field values to the columns, is_binary(a)
\* evaluates to zero exactly when a evaluates to 0 or 1.
C15_IsBinary ==
    (last.op = "is_binary" /\ Normalized(last.lhs))
        => \A assignment \in Assignments :
               (Eval(polys[1], assignment) = F_zero)
                   <=> (Eval(last.lhs, assignment) \in {F_zero, F_one})

\* C16: a + b and b + a have the same term list, and so have (a + b) + c
\* and a + (b + c), for all polynomials a, b, c built by the public
\* operations.
C16_AddCommutesAssociates ==
    /\ last.op = "add" => polys[1] = Constraint_add(last.rhs, last.lhs)
    /\ \A i, j, k \in DOMAIN polys :
           Constraint_add(Constraint_add(polys[i], polys[j]), polys[k])
               = Constraint_add(polys[i], Constraint_add(polys[j], polys[k]))

\* C17: U256::eq(a, b) is true exactly when both limbs match, so it agrees
\* with the derived == and with Ord::cmp returning Equal.
C17_EqBothLimbs ==
    call = "U256::eq"
        => /\ ret.value = (args[1].high = args[2].high /\ args[1].low = args[2].low)
           /\ ret.value = (args[1] = args[2])
           /\ ret.value = (cmp(args[1], args[2]) = "Equal")

\* the call returned floor(a / d) and a mod d
ExactDivision ==
    /\ ret.kind = "return"
    /\ ToInt(ret.quotient) = ToInt(args[1]) \div ToInt(args[2])
    /\ ToInt(ret.remainder) = ToInt(args[1]) % ToInt(args[2])

\* C18: for every dividend a and every nonzero divisor d whose high limb
\* is zero, div_rem(a, d) returns floor(a / d) and a mod d.
C18_DivRemSmallDivisor ==
    (call = "U256::div_rem" /\ args[2].high = 0 /\ args[2].low # 0)
        => ExactDivision

\* C19: for every dividend a and every divisor d whose high limb is
\* nonzero, div_rem(a, d) completes with d * q + r = a and 0 <= r < d.
C19_DivRemLargeDivisor ==
    (call = "U256::div_rem" /\ args[2].high # 0) => ExactDivision

\* C20: dividing a U256 value by zero through /, /=, % or %= aborts; no
\* quotient or remainder is returned.
C20_DivisionByZeroFatal ==
    (/\ call \in {"U256::div", "U256::div_assign", "U256::rem", "U256::rem_assign"}
     /\ args[2] = U256_ZERO)
        => ret = Panicked

\* a nonzero value was divided by zero and the call aborted
C20_Witness ==
    /\ call \in {"U256::div", "U256::div_assign", "U256::rem", "U256::rem_assign"}
    /\ args[1] # U256_ZERO
    /\ args[2] = U256_ZERO
    /\ ret.kind = "panic"

\* C21: shifting a U256 left or right by an amount whose low limb is 0
\* returns it unchanged, and shifting by an amount whose low limb is at
\* least the width (amounts that do not fit a usize included) returns zero.
C21_ShiftByZeroAndByWidth ==
    call \in {"U256::shl", "U256::shr"}
        => /\ args[2].low = 0 => ret = Returned(args[1])
           /\ args[2].low >= U256Bits => ret = Returned(U256_ZERO)

\* C22: U256 addition and subtraction wrap modulo 2^256 with one carry or
\* borrow from the low limb to the high limb, and (a + b) - b = a,
\* a + 0 = a, a - a = 0.
C22_AddSubWrap ==
    /\ call = "U256::add"
         => /\ ret = Returned(FromInt((ToInt(args[1]) + ToInt(args[2])) % WideMod))
            /\ args[2] = U256_ZERO => ret = Returned(args[1])
    /\ call = "U256::sub"
         => /\ ret = Returned(FromInt((WideMod + ToInt(args[1]) - ToInt(args[2]))
                                      % WideMod))
            /\ args[2] = args[1] => ret = Returned(U256_ZERO)
    /\ call = "U256::add.sub" => ret = Returned(args[1])

\* an addition that carries out of the low limb and wraps
C22_Witness ==
    /\ call = "U256::add"
    /\ args[1].low + args[2].low >= LimbMod
    /\ ToInt(args[1]) + ToInt(args[2]) >= WideMod
    /\ ret = Returned(FromInt(ToInt(args[1]) + ToInt(args[2]) - WideMod))

\* C23: a & b returns the limb-wise AND of a and b and never aborts.
C23_BitAndOperator ==
    call = "U256::bitand"
        => ret = Returned([high |-> BitAnd(args[1].high, args[2].high),
                           low |-> BitAnd(args[1].low, args[2].low)])

\* C24: U256::mul(a, b) is the low 256 bits of the product a * b.
C24_MulLowBits ==
    call = "U256::mul"
        => ret = Returned(FromInt((ToInt(args[1]) * ToInt(args[2])) % WideMod))

\* a product of two values with nonzero high limbs that exceeds the width
C24_Witness ==
    /\ call = "U256::mul"
    /\ args[1].high # 0
    /\ args[2].high # 0
    /\ args[2].low # 0
    /\ ToInt(args[1]) * ToInt(args[2]) >= WideMod
    /\ ret = Returned(FromInt((ToInt(args[1]) * ToInt(args[2])) % WideMod))
    /\ ret.value # U256_ZERO

RECURSIVE Exponent(_, _)
\* the exponent a variable list gives to a column reference
Exponent(variables, element) ==
    IF variables = <<>> THEN 0
    ELSE (IF Head(variables).element = element THEN Head(variables).power ELSE 0)
             + Exponent(Tail(variables), element)

\* the number of entries of a variable list that name a column reference
Occurrences(variables, element) ==
    Cardinality({i \in DOMAIN variables : variables[i].element = element})

\* the product of two terms as the claim describes it
ProductOf(t, lhs, rhs) ==
    /\ t.coeff = F_mul(lhs.coeff, rhs.coeff)
    /\ \A e \in Elements :
           /\ Exponent(t.vars, e) = Exponent(lhs.vars, e) + Exponent(rhs.vars, e)
           /\ Occurrences(t.vars, e) =
                  (IF Exponent(lhs.vars, e) + Exponent(rhs.vars, e) > 0 THEN 1 ELSE 0)

\* C25: multiplying two terms yields a term whose coefficient is the product
\* of the coefficients and whose variable list has every column reference
\* of either operand exactly once, with the sum of its two exponents; no
\* column reference is lost.  Constraint multiplication multiplies every
\* term of one nonzero operand with every term of the other.
C25_TermProduct ==
    (/\ last.op = "mul"
     /\ ~Constraint_is_zero(last.lhs)
     /\ ~Constraint_is_zero(last.rhs))
        => \A i \in DOMAIN last.lhs : \A j \in DOMAIN last.rhs :
               /\ ProductOf(Term_mul(last.lhs[i], last.rhs[j]),
                            last.lhs[i], last.rhs[j])
               /\ \E k \in DOMAIN polys[1] :
                      polys[1][k] = Term_mul(last.lhs[i], last.rhs[j])

(***************************************************************************)
(* Variables::cmp as a pure function, on canonical variable lists and on   *)
(* the lists Variables::new builds.                                        *)
(***************************************************************************)
\* largest total degree of the canonical lists compared
MaxCmpDegree == 3

\* the column references compared, in the derived order of Element
ElementOrder ==
    <<Element_Curr(0), Element_Curr(1), Element_Next(0), Element_Next(1)>>

CmpElements == {ElementOrder[i] : i \in DOMAIN ElementOrder}

\* the canonical list of an exponent vector: ascending column references,
\* each at most once, no zero exponent
ListOf(exponents) ==
    SelectSeq([i \in DOMAIN ElementOrder |->
                  [element |-> ElementOrder[i],
                   power |-> exponents[ElementOrder[i]]]],
              LAMBDA v : v.power # 0)

CanonicalLists ==
    {l \in {ListOf(exponents) : exponents \in [CmpElements -> 0 .. MaxCmpDegree]} :
        Variables_degree(l) <= MaxCmpDegree}

\* the vectors handed to Variables::new: unsorted, with repeats and zero powers
RawVariables == [element : CmpElements, power : 0 .. (MaxCmpDegree - 1)]

RawLists == {<<>>} \cup {<<v>> : v \in RawVariables}
                \cup {<<v, w>> : v \in RawVariables, w \in RawVariables}

\* `a.cmp(&b)` on two canonical lists
CallVariablesCmp ==
    /\ call = "idle"
    /\ \E a \in CanonicalLists, b \in CanonicalLists :
           Call("Variables::cmp", <<a, b>>, Returned(Variables_cmp(a, b)))

\* `Variables::new(v).cmp(&Variables::new(w))`
CallVariablesNewCmp ==
    /\ call = "idle"
    /\ \E v \in RawLists, w \in RawLists :
           Call("Variables::new.cmp", <<Variables_new(v), Variables_new(w)>>,
                Returned(Variables_cmp(Variables_new(v), Variables_new(w))))

VariablesNext ==
    \/ CallVariablesCmp
    \/ CallVariablesNewCmp

SpecVariables == Init /\ [][VariablesNext]_vars

\* the opposite ordering
Reverse(ordering) ==
    IF ordering = "Less" THEN "Greater"
    ELSE IF ordering = "Greater" THEN "Less"
    ELSE ordering

\* the ordering the first differing position k of two lists gives: the list
\* with the lower column reference there is the greater one, and with the
\* same column reference the list with the higher exponent
DecidedAt(a, b, k) ==
    IF a[k].element = b[k].element
    THEN (IF a[k].power > b[k].power THEN "Greater" ELSE "Less")
    ELSE (IF Element_cmp(a[k].element, b[k].element) = "Less" THEN "Greater"
          ELSE "Less")

AtMost(ordering) == ordering \in {"Less", "Equal"}

\* C26: Variables::cmp is a total order on canonical variable lists: total
\* degree ascending first; among lists of equal degree the first position
\* whose column reference or exponent differs decides; Equal only for
\* identical lists; antisymmetric and transitive.
C26_CmpTotalOrder ==
    call \in {"Variables::cmp", "Variables::new.cmp"}
        => /\ ret.value \in {"Less", "Equal", "Greater"}
           /\ Variables_degree(args[1]) < Variables_degree(args[2])
                  => ret.value = "Less"
           /\ Variables_degree(args[1]) > Variables_degree(args[2])
                  => ret.value = "Greater"
           /\ (/\ Variables_degree(args[1]) = Variables_degree(args[2])
               /\ args[1] # args[2])
                  => \E k \in DOMAIN args[1] \cap DOMAIN args[2] :
                         /\ args[1][k] # args[2][k]
                         /\ \A j \in 1 .. (k - 1) : args[1][j] = args[2][j]
                         /\ ret.value = DecidedAt(args[1], args[2], k)
           /\ ret.value = "Equal" <=> args[1] = args[2]
           /\ Variables_cmp(args[2], args[1]) = Reverse(ret.value)
           /\ \A c \in CanonicalLists :
                  (AtMost(ret.value) /\ AtMost(Variables_cmp(args[2], c)))
                      => AtMost(Variables_cmp(args[1], c))

\* two lists of equal degree that agree in their first entry and are
\* ordered by the column reference of their second
C26_Witness ==
    /\ call = "Variables::cmp"
    /\ Len(args[1]) >= 2 /\ Len(args[2]) >= 2
    /\ Variables_degree(args[1]) = Variables_degree(args[2])
    /\ args[1][1] = args[2][1]
    /\ args[1][2].element # args[2][2].element
    /\ ret = Returned("Greater")

\* C27: in every run of generate_proof that reaches the composition
\* commitment, the Merkle root of the composition matrix is absorbed into
\* the transcript after it is computed and before the Proof is returned.
C27_CompositionRootAbsorbed ==
    (Built("composition") /\ proof.kind = "Ok")
        => \E i \in DOMAIN channel :
               /\ channel[i] = "commit_composition_trace"
               /\ Before("get_constraint_composition_coeffs", i)

=============================================================================
